---- MODULE Spec2Model ----
(***************************************************************************)
(* Verification model of the telecom verification service:                 *)
(*   - RoundRobinBalancer / VerificationServer   (src/src/lib.rs)          *)
(*   - MockTelecomProvider                       (src/src/provider.rs)     *)
(*   - VerificationKeeper                        (src/src/repo.rs)         *)
(*   - the request handlers sharing one server   (src/src/main.rs)         *)
(*                                                                         *)
(* Specifications:                                                         *)
(*   SpecBalancer  direct calls of Balancer::next_idx                      *)
(*   SpecProvider  direct calls of TelecomProvider::verify                 *)
(*   SpecKeeper    direct calls of the VerificationRepo operations         *)
(*   SpecConstruct the constructors of the keeper and of the server        *)
(*   SpecRepo      the handlers on a server whose repository may fail      *)
(*   Spec          the handlers of main.rs on the shared, locked server    *)
(***************************************************************************)
EXTENDS Integers, Sequences, FiniteSets, TLC

VARIABLES
    cur_idx,        \* RoundRobinBalancer.cur_idx (the usize behind the RwLock)
    rw_poisoned,    \* the RwLock of cur_idx is poisoned (a writer panicked)
    calls,          \* history: every next_idx call, [len, ret], in call order
    carriers,       \* VerificationServer.carriers (fixed at construction)
    repo,           \* VerificationServer.repo: which VerificationRepo it boxes
    mutex,          \* holder of main's Mutex<VerificationServer>, or NoThread
    mutex_poisoned, \* the Mutex is poisoned (a holder panicked)
    entries,        \* VerificationKeeper.entries
    step_weights,   \* VerificationKeeper.step_weights
    pc,             \* per thread: position in its handler
    req,            \* per thread: VerificationRequest.number being handled
    sel,            \* per thread: the carrier chosen by carriers.get(idx)
    trials,         \* per thread: send_sms/send_voice results of the running verify
    entry,          \* per thread: the VerificationEntry returned by verify
    resp,           \* what the latest completed call returned, and to which thread
    num             \* latest draw of rand::thread_rng().gen_range(0, 100)

balVars    == <<cur_idx, rw_poisoned, calls>>
serverVars == <<carriers, repo, mutex, mutex_poisoned>>
keeperVars == <<entries, step_weights>>
threadVars == <<pc, req, sel, trials, entry>>
vars == <<cur_idx, rw_poisoned, calls, carriers, repo, mutex, mutex_poisoned,
          entries, step_weights, pc, req, sel, trials, entry, resp, num>>

(***************************************************************************)
(* Bounds of the model.                                                    *)
(***************************************************************************)
\* largest carrier_len passed to next_idx in SpecBalancer
MaxPool == 3
\* number of direct next_idx calls explored in SpecBalancer
MaxCalls == 6
\* number of entries stored directly in SpecKeeper
MaxEntries == 3
\* number of POST / requests accepted in Spec
MaxRequests == 3
\* largest weight in the step_values handed to VerificationKeeper::new in
\* SpecConstruct
MaxWeight == 2

\* the outcome r of a call, as handed to thread t
To(t, r) == ("to" :> t) @@ r

\* Option<T> of Rust: None is <<>>, Some(x) is <<x>>
None == <<>>
Some(x) == <<x>>
IsSome(o) == Len(o) = 1
Unwrap(o) == o[1]

(***************************************************************************)
(* RoundRobinBalancer                                                      *)
(***************************************************************************)
\* `let idx = *ci; ... idx`: the value next_idx returns
NextIdxRet(ci, carrier_len) == ci

\* `*ci = (*ci + 1) % carrier_len`: the counter after the call
RotateNoWrap(ci, carrier_len) == ci + 1
Rotate(ci, carrier_len) == (ci + 1) % carrier_len

\* next_idx panics: `write().unwrap()` on a poisoned lock, or `% 0`
NextIdxPanics(carrier_len) == rw_poisoned \/ carrier_len = 0

\* the effect of one next_idx(carrier_len) call on the balancer; the write
\* guard is alive when `% 0` panics, so that panic poisons the RwLock
next_idx(carrier_len) ==
    IF NextIdxPanics(carrier_len)
    THEN /\ rw_poisoned' = TRUE
         /\ cur_idx' = cur_idx
         /\ calls' = Append(calls, [len |-> carrier_len, ret |-> None])
    ELSE /\ rw_poisoned' = rw_poisoned
         /\ cur_idx' = Rotate(cur_idx, carrier_len)
         /\ calls' = Append(calls, [len |-> carrier_len,
                                    ret |-> Some(NextIdxRet(cur_idx, carrier_len))])

(***************************************************************************)
(* MockTelecomProvider                                                     *)
(***************************************************************************)
\* exclusive upper end of `gen_range(0, 100)`
RngHigh == 100
Draws == 0..(RngHigh - 1)

\* largest percentage MockTelecomProvider::new accepts
MaxChance == 100

\* MockTelecomProvider::new returns Ok
NewProviderOk(chance_sms, chance_voice) ==
    ~(chance_sms > MaxChance \/ chance_voice > MaxChance)

MockTelecomProvider(name, chance_sms, chance_voice) ==
    [name |-> name, chance_sms |-> chance_sms, chance_voice |-> chance_voice]

\* `num <= self.chance_sms` for the draw n
SendSmsByVoiceChance(p, n) == n <= p.chance_voice
send_sms(p, n) == n <= p.chance_sms

\* `num <= self.chance_voice` for the draw n
send_voice(p, n) == n <= p.chance_voice

\* the guards of verify's match arms, top to bottom: which call, which step
ArmKind(i) == IF i <= 2 THEN "sms" ELSE "voice"

ArmStep(i) ==
    <<"FirstSMS", "SecondSMS", "FirstTextToSpeech", "SecondTextToSpeech">>[i]

NumArms == 4

\* the match stops at the first arm whose guard is true
MatchDone(tr) ==
    \/ Len(tr) = NumArms
    \/ (Len(tr) > 0 /\ tr[Len(tr)].ok)

\* the match goes on to its next arm
MatchContinuesAlways(tr) == Len(tr) < NumArms
MatchContinues(tr) == ~MatchDone(tr)

\* the step the match yields: that of the first arm whose guard was true,
\* `_ => Unreachable` when none was
rng_verification_step(tr) ==
    LET hit == {i \in 1..Len(tr) : tr[i].ok}
    IN  IF hit = {} THEN "Unreachable"
        ELSE ArmStep(CHOOSE i \in hit : \A j \in hit : i <= j)

\* VerificationEntry (the time field, a wall-clock reading, is left out)
VerificationEntry(carrier, number, step) ==
    [carrier |-> carrier, number |-> number, step |-> step]

(***************************************************************************)
(* Arithmetic of the repository: u32 sums and f32 quotients.               *)
(* A u32 is held as two 16-bit limbs [hi, lo]; an f32 as [m, e], the value *)
(* m * 2^e with 2^23 <= m < 2^24, or m = 0 and e = 0 for 0.0.              *)
(***************************************************************************)
Pow2(n) == 2 ^ n
Limb == Pow2(16)

\* bits of the f32 significand, implicit bit included
F32Bits == 24
F32Zero == [m |-> 0, e |-> 0]

U32(n) == [hi |-> n \div Limb, lo |-> n % Limb]

\* a + b as the u32 addition computes it: the wrapped sum, and whether it
\* overflowed (a panic with overflow checks, a wrap without)
AddU32(a, b) ==
    LET lo == a.lo + b.lo
        hi == a.hi + b.hi + (lo \div Limb)
    IN  [hi |-> hi % Limb, lo |-> lo % Limb, ovf |-> hi >= Limb]

\* number of bits of n > 0
RECURSIVE BitLen(_)
BitLen(n) == IF n = 0 THEN 0 ELSE 1 + BitLen(n \div 2)

\* round to nearest, ties to even: q with remainder r of a division by d
RoundEven(q, r, d) ==
    IF 2 * r > d \/ (2 * r = d /\ q % 2 = 1) THEN q + 1 ELSE q

\* a rounded significand may reach 2^24: renormalise
Renorm(m, e) ==
    IF m = Pow2(F32Bits) THEN [m |-> Pow2(F32Bits - 1), e |-> e + 1]
    ELSE [m |-> m, e |-> e]

\* `x as f32` for an integer 0 <= n < 2^24: exact
IntToF32(n) ==
    IF n = 0 THEN F32Zero
    ELSE LET k == F32Bits - BitLen(n) IN [m |-> n * Pow2(k), e |-> 0 - k]

\* `weighted_sum as f32` for a u32: rounded when it has more than 24 bits
U32ToF32(u) ==
    IF u.hi < Pow2(F32Bits - 16) THEN IntToF32(u.hi * Limb + u.lo)
    ELSE LET s == BitLen(u.hi) + 16 - F32Bits
             q == u.hi * Pow2(16 - s) + (u.lo \div Pow2(s))
             r == u.lo % Pow2(s)
         IN  Renorm(RoundEven(q, r, Pow2(s)), s)

\* long division: n more quotient bits of r / d, given the quotient q so far
RECURSIVE DivBits(_, _, _, _)
DivBits(q, r, d, n) ==
    IF n = 0 THEN [q |-> q, r |-> r]
    ELSE IF 2 * r >= d THEN DivBits(2 * q + 1, 2 * r - d, d, n - 1)
         ELSE DivBits(2 * q, 2 * r, d, n - 1)

\* a / b of two f32 values, b > 0: the correctly rounded quotient
F32Div(a, b) ==
    IF a.m = 0 THEN F32Zero
    ELSE LET n == IF a.m >= b.m THEN F32Bits - 1 ELSE F32Bits
             d == DivBits(a.m \div b.m, a.m % b.m, b.m, n)
         IN  Renorm(RoundEven(d.q, d.r, b.m), a.e - b.e - n)

\* a < b for two non-negative f32 values
F32Lt(a, b) ==
    IF a.m = 0 THEN b.m > 0
    ELSE b.m > 0 /\ (a.e < b.e \/ (a.e = b.e /\ a.m < b.m))

(***************************************************************************)
(* VerificationKeeper                                                      *)
(***************************************************************************)
Steps == <<"FirstSMS", "SecondSMS", "FirstTextToSpeech", "SecondTextToSpeech",
           "Unreachable">>
StepSet == {Steps[i] : i \in 1..Len(Steps)}

\* `sort()` of the copied array: ascending
RECURSIVE SortInsert(_, _)
SortInsert(sorted, x) ==
    IF sorted = <<>> THEN <<x>>
    ELSE IF x < Head(sorted) THEN <<x>> \o sorted
         ELSE <<Head(sorted)>> \o SortInsert(Tail(sorted), x)

RECURSIVE SortAsc(_)
SortAsc(values) ==
    IF values = <<>> THEN <<>>
    ELSE SortInsert(SortAsc(SubSeq(values, 1, Len(values) - 1)),
                    values[Len(values)])

\* VerificationKeeper::new returns Ok: `step_values != sorted_steps` is false
NewKeeperOkStrict(step_values) ==
    \A i \in 1..(Len(step_values) - 1) : step_values[i] < step_values[i + 1]
NewKeeperOk(step_values) == step_values = SortAsc(step_values)

\* the step_weights map `new` builds: step i of Steps gets step_values[i]
NewStepWeights(step_values) ==
    [s \in StepSet |-> step_values[CHOOSE i \in 1..Len(Steps) : Steps[i] = s]]

\* `.map(|s| self.step_weights[&s]).sum()` into a u32, left to right
RECURSIVE WeightedSum(_, _)
WeightedSum(weights, attempts) ==
    IF attempts = <<>> THEN [hi |-> 0, lo |-> 0, ovf |-> FALSE]
    ELSE LET acc == WeightedSum(weights, SubSeq(attempts, 1, Len(attempts) - 1))
             nxt == AddU32(acc, U32(weights[attempts[Len(attempts)]]))
         IN  [nxt EXCEPT !.ovf = acc.ovf \/ nxt.ovf]

\* get_weighted_avg: `weighted_sum as f32 / *total_attempts as f32`, the
\* sum taken as the wrapping u32 sum
get_weighted_avg(weights, attempts) ==
    F32Div(U32ToF32(WeightedSum(weights, attempts)), IntToF32(Len(attempts)))

\* `for entry in self.entries.iter()` under `&self`: the entries after the
\* loop that reads them
DrainEntries(es) == <<>>
IterEntries(es) == es

\* the keys of by_carrier: the carriers of the stored entries
CarriersOf(es) == {es[i].carrier : i \in 1..Len(es)}

\* by_carrier[c]: the steps of c's entries, in the order they were stored
RECURSIVE StepsOf(_, _)
StepsOf(es, c) ==
    IF es = <<>> THEN <<>>
    ELSE IF Head(es).carrier = c THEN <<Head(es).step>> \o StepsOf(Tail(es), c)
         ELSE StepsOf(Tail(es), c)

\* the orders in which `by_carrier.iter()` may visit the keys of the HashMap
IterOrders(keys) ==
    {o \in [1..Cardinality(keys) -> keys] :
        \A i, j \in 1..Cardinality(keys) : i # j => o[i] # o[j]}

\* `a.1.partial_cmp(&b.1)` is Less: the comparison sort_by sorts with
RankAfter(a, b) == F32Lt(b.score, a.score)
RankBefore(a, b) == F32Lt(a.score, b.score)

\* sort_by is a stable sort: an element goes before the first one it is
\* strictly less than
RECURSIVE RankInsert(_, _)
RankInsert(sorted, x) ==
    IF sorted = <<>> THEN <<x>>
    ELSE IF RankBefore(x, Head(sorted)) THEN <<x>> \o sorted
         ELSE <<Head(sorted)>> \o RankInsert(Tail(sorted), x)

RECURSIVE RankSort(_)
RankSort(r) ==
    IF r = <<>> THEN <<>>
    ELSE RankInsert(RankSort(SubSeq(r, 1, Len(r) - 1)), r[Len(r)])

\* get_provider_rank when the HashMap is iterated in `order`
get_provider_rank(weights, es, order) ==
    RankSort([i \in 1..Len(order) |->
        [carrier |-> order[i],
         score |-> get_weighted_avg(weights, StepsOf(es, order[i]))]])

\* some carrier's u32 sum overflows: a panic when the build checks overflow
SumOverflows(weights, es) ==
    \E c \in CarriersOf(es) : WeightedSum(weights, StepsOf(es, c)).ovf

\* what a get_provider_rank call hands back to its caller
RankOutcome(weights, es, order, overflow_checks) ==
    IF overflow_checks /\ SumOverflows(weights, es)
    THEN [kind |-> "panic"]
    ELSE [kind |-> "rank", rank |-> get_provider_rank(weights, es, order)]

(***************************************************************************)
(* State after construction                                                *)
(***************************************************************************)
Threads == {"h1", "h2"}
NoThread == "none"

\* phone numbers a request carries (the core never inspects the string)
Numbers == {"0177"}
\* `Utc::now().timestamp()` as the token formats it
Timestamps == {"1603584000"}
\* carrier names used by direct store_attempt calls
CarrierNames == {"carrier_1", "carrier_2"}
\* configured percentages tried for a provider (u8 values)
ChanceValues == {0, 1, 50, 100, 101}
\* step_values arrays handed to VerificationKeeper::new
WeightTables == {<<1, 2, 3, 4, 5>>, <<1, 2, 3, 4, 2147483647>>, <<5, 4, 3, 2, 1>>}
\* `VerificationKeeper::new([1, 2, 3, 4, 5])` of main
MainWeights == <<1, 2, 3, 4, 5>>
\* the carriers main pushes
MainCarriers == <<MockTelecomProvider("carrier_1", 60, 50),
                  MockTelecomProvider("carrier_2", 50, 60),
                  MockTelecomProvider("carrier_3", 10, 100)>>
\* carrier vectors a VerificationServer is constructed with
Pools == {<<>>,
          MainCarriers,
          <<MockTelecomProvider("carrier_1", 100, 0),
            MockTelecomProvider("carrier_2", 0, 0)>>}

InitBalancer ==
    /\ cur_idx = 0
    /\ rw_poisoned = FALSE
    /\ calls = <<>>

InitThreads ==
    /\ pc = [t \in Threads |-> "idle"]
    /\ req = [t \in Threads |-> ""]
    /\ sel = [t \in Threads |-> None]
    /\ trials = [t \in Threads |-> <<>>]
    /\ entry = [t \in Threads |-> None]
    /\ resp = [kind |-> "none"]
    /\ num = None

InitLocks ==
    /\ mutex = NoThread
    /\ mutex_poisoned = FALSE

\* the VerificationRepo implementations a server may box: the in-memory
\* keeper, and one whose store_attempt may return Err ("a failed transaction
\* for a production DB")
Keeper == "VerificationKeeper"
ProductionDB == "ProductionDB"
Repos == {Keeper, ProductionDB}

(***************************************************************************)
(* TelecomProvider::verify, one step per send_sms / send_voice call        *)
(***************************************************************************)
\* a trial of the running verify: the next arm's guard is evaluated on draw n
SendSms(t, n) ==
    /\ pc[t] = "verify"
    /\ MatchContinues(trials[t])
    /\ ArmKind(Len(trials[t]) + 1) = "sms"
    /\ trials' = [trials EXCEPT ![t] =
            Append(@, [kind |-> "sms", ok |-> send_sms(Unwrap(sel[t]), n)])]
    /\ UNCHANGED <<balVars, serverVars, keeperVars, pc, req, sel, entry, resp>>

SendVoice(t, n) ==
    /\ pc[t] = "verify"
    /\ MatchContinues(trials[t])
    /\ ArmKind(Len(trials[t]) + 1) = "voice"
    /\ trials' = [trials EXCEPT ![t] =
            Append(@, [kind |-> "voice", ok |-> send_voice(Unwrap(sel[t]), n)])]
    /\ UNCHANGED <<balVars, serverVars, keeperVars, pc, req, sel, entry, resp>>

\* the match has yielded its step: verify builds and returns the entry
VerifyReturn(t) ==
    /\ pc[t] = "verify"
    /\ ~MatchContinues(trials[t])
    /\ entry' = [entry EXCEPT ![t] =
            Some(VerificationEntry(Unwrap(sel[t]).name, req[t],
                                   rng_verification_step(trials[t])))]
    /\ pc' = [pc EXCEPT ![t] = "verified"]
    /\ UNCHANGED <<balVars, serverVars, keeperVars, req, sel, trials, resp, num>>

(***************************************************************************)
(* SpecBalancer: next_idx called directly, with any carrier_len            *)
(***************************************************************************)
BalancerInit ==
    /\ InitBalancer /\ InitThreads /\ InitLocks
    /\ carriers = <<>>
    /\ repo = Keeper
    /\ entries = <<>>
    /\ step_weights = NewStepWeights(MainWeights)

NextIdxCall(carrier_len) ==
    /\ Len(calls) < MaxCalls
    /\ next_idx(carrier_len)
    /\ UNCHANGED <<serverVars, keeperVars, threadVars, resp, num>>

BalancerNext == \E carrier_len \in 0..MaxPool : NextIdxCall(carrier_len)

SpecBalancer == BalancerInit /\ [][BalancerNext]_vars

(***************************************************************************)
(* SpecProvider: verify called directly on one provider                    *)
(***************************************************************************)
ProviderInit ==
    /\ InitBalancer /\ InitThreads /\ InitLocks
    /\ \E cs \in ChanceValues, cv \in ChanceValues :
          /\ NewProviderOk(cs, cv)
          /\ carriers = <<MockTelecomProvider("carrier_1", cs, cv)>>
    /\ repo = Keeper
    /\ entries = <<>>
    /\ step_weights = NewStepWeights(MainWeights)

\* the caller invokes carriers[1].verify(number); a call that has returned
\* (pc = "verified") left its entry in entry[t]
VerifyCall(t, number) ==
    /\ pc[t] \in {"idle", "verified"}
    /\ pc' = [pc EXCEPT ![t] = "verify"]
    /\ req' = [req EXCEPT ![t] = number]
    /\ sel' = [sel EXCEPT ![t] = Some(carriers[1])]
    /\ trials' = [trials EXCEPT ![t] = <<>>]
    /\ entry' = [entry EXCEPT ![t] = None]
    /\ num' = None
    /\ UNCHANGED <<balVars, serverVars, keeperVars, resp>>

ProviderNext ==
    \/ \E number \in Numbers : VerifyCall("h1", number)
    \/ \E n \in Draws : SendSms("h1", n) /\ num' = Some(n)
    \/ \E n \in Draws : SendVoice("h1", n) /\ num' = Some(n)
    \/ VerifyReturn("h1")

SpecProvider == ProviderInit /\ [][ProviderNext]_vars

(***************************************************************************)
(* SpecKeeper: the VerificationRepo operations called directly             *)
(***************************************************************************)
KeeperInit ==
    /\ InitBalancer /\ InitThreads /\ InitLocks
    /\ carriers = <<>>
    /\ repo = Keeper
    /\ entries = <<>>
    /\ \E step_values \in WeightTables :
          /\ NewKeeperOk(step_values)
          /\ step_weights = NewStepWeights(step_values)

\* store_attempt: `self.entries.push(entry); Ok(())`
StoreAttemptFront(es, e) == <<e>> \o es
StoreAttemptLost(es, e) == IF es = <<>> THEN <<e>> ELSE [es EXCEPT ![Len(es)] = e]
store_attempt(es, e) == Append(es, e)

StoreAttemptCall(t, carrier, number, step) ==
    /\ Len(entries) < MaxEntries
    /\ entries' = store_attempt(entries, VerificationEntry(carrier, number, step))
    /\ resp' = To(t, [kind |-> "stored"])
    /\ UNCHANGED <<balVars, serverVars, step_weights, pc, req, sel, trials, entry, num>>

\* get_provider_rank: the HashMap's iteration order and whether the build
\* checks arithmetic overflow are not fixed by the source
GetProviderRankCall(t) ==
    /\ \E order \in IterOrders(CarriersOf(entries)), overflow_checks \in BOOLEAN :
          resp' = To(t, RankOutcome(step_weights, entries, order, overflow_checks))
    /\ entries' = IterEntries(entries)
    /\ UNCHANGED <<balVars, serverVars, step_weights, pc, req, sel, trials, entry, num>>

KeeperNext ==
    \/ \E carrier \in CarrierNames, step \in StepSet :
          StoreAttemptCall("h1", carrier, "0177", step)
    \/ GetProviderRankCall("h1")

SpecKeeper == KeeperInit /\ [][KeeperNext]_vars

(***************************************************************************)
(* SpecConstruct: the constructors, called directly                        *)
(***************************************************************************)
\* values of the --balancer option
BalancerArgs == {"rr", "round-robin", "b", "best", "weighted"}

\* BalancerType::from_str
from_str(s) ==
    IF s \in {"rr", "round-robin"} THEN [ok |-> TRUE, val |-> "RoundRobin"]
    ELSE IF s \in {"b", "best"} THEN [ok |-> TRUE, val |-> "Best"]
    ELSE [ok |-> FALSE, val |-> "Invalid client_mode: " \o s]

\* the match on client_mode in VerificationServer::new: the balancer it
\* boxes, None where `unimplemented!` panics
NewBalancerFallback(client_mode) == Some("RoundRobinBalancer")
NewBalancer(client_mode) ==
    IF client_mode = "RoundRobin" THEN Some("RoundRobinBalancer") ELSE None

\* VerificationServer::new: the server value, or the panic
NewServer(client_mode, cs, r) ==
    LET b == NewBalancer(client_mode)
    IN  IF IsSome(b)
        THEN [outcome |-> "server",
              server |-> Some([carriers |-> cs, balancer |-> Unwrap(b), repo |-> r])]
        ELSE [outcome |-> "panic: not implemented: BestBalancer is not supported yet",
              server |-> None]

\* the step_values arrays tried: every [u32; 5] over 0..MaxWeight
StepValues == [1..Len(Steps) -> 0..MaxWeight]

\* VerificationKeeper::new: Ok with the step_weights map, or Err
NewKeeper(step_values) ==
    IF NewKeeperOk(step_values)
    THEN [ok |-> TRUE, step_weights |-> Some(NewStepWeights(step_values))]
    ELSE [ok |-> FALSE, step_weights |-> None]

ConstructInit ==
    /\ InitBalancer /\ InitThreads /\ InitLocks
    /\ carriers = <<>>
    /\ repo = Keeper
    /\ entries = <<>>
    /\ step_weights = NewStepWeights(MainWeights)

NewKeeperCall(step_values) ==
    /\ resp' = [kind |-> "keeper", step_values |-> step_values] @@ NewKeeper(step_values)
    /\ UNCHANGED <<balVars, serverVars, keeperVars, threadVars, num>>

\* main, lines 10-21: the option parsed by from_str (an Err ends main before
\* the server is built), then VerificationServer::new
NewServerCall(arg, cs) ==
    /\ resp' = [kind |-> "server", arg |-> arg] @@
                (IF from_str(arg).ok THEN NewServer(from_str(arg).val, cs, Keeper)
                 ELSE [outcome |-> from_str(arg).val, server |-> None])
    /\ UNCHANGED <<balVars, serverVars, keeperVars, threadVars, num>>

ConstructNext ==
    \/ \E step_values \in StepValues : NewKeeperCall(step_values)
    \/ \E arg \in BalancerArgs, cs \in Pools : NewServerCall(arg, cs)

SpecConstruct == ConstructInit /\ [][ConstructNext]_vars

(***************************************************************************)
(* Spec: the POST / and GET /rank handlers of main on the shared server    *)
(***************************************************************************)
Init ==
    /\ InitBalancer /\ InitThreads /\ InitLocks
    /\ carriers \in Pools
    /\ repo = Keeper
    /\ entries = <<>>
    /\ NewKeeperOk(MainWeights)
    /\ step_weights = NewStepWeights(MainWeights)

\* `server.lock()` returns only while no other thread holds the guard
LockAlwaysAvailable == TRUE
LockAvailable == mutex = NoThread

\* a panic unwinding through the handler drops the MutexGuard and poisons
\* the Mutex; the request gets no response from the handler
Panicked == [kind |-> "panic"]

\* `self.carriers.get(idx)`
CarrierGetFirst(idx) == IF carriers = <<>> THEN None ELSE Some(carriers[1])
CarrierGet(idx) == IF idx < Len(carriers) THEN Some(carriers[idx + 1]) ELSE None

\* the two responses of the final match on entry.step, and the empty-pool one
NoCarriersFound ==
    [kind |-> "response", token |-> None, error |-> Some("no carriers found")]

TokenAlways(e, number, ts) ==
    [kind |-> "response",
     token |-> Some("Authorization: Bearer ey" \o number \o ts),
     error |-> None]
ResponseFor(e, number, ts) ==
    IF e.step = "Unreachable"
    THEN [kind |-> "response", token |-> None,
          error |-> Some("verification unsuccessful")]
    ELSE [kind |-> "response",
          token |-> Some("Authorization: Bearer ey" \o number \o ts),
          error |-> None]

\* POST /: the body parsed, `server.lock().unwrap()`
PostLock(t, number) ==
    /\ pc[t] = "idle"
    /\ Len(calls) < MaxRequests
    /\ LockAvailable
    /\ IF mutex_poisoned
       THEN /\ resp' = To(t, Panicked)
            /\ UNCHANGED <<mutex, pc, req>>
       ELSE /\ mutex' = t
            /\ pc' = [pc EXCEPT ![t] = "next_idx"]
            /\ req' = [req EXCEPT ![t] = number]
            /\ resp' = resp
    /\ UNCHANGED <<balVars, carriers, repo, mutex_poisoned, keeperVars, sel, trials, entry, num>>

\* handle_request, lines 102-113:
\* `self.carriers.get(self.balancer.next_idx(self.carriers.len()))`
SelectCarrier(t) ==
    /\ pc[t] = "next_idx"
    /\ next_idx(Len(carriers))
    /\ IF NextIdxPanics(Len(carriers))
       THEN /\ mutex_poisoned' = TRUE
            /\ mutex' = NoThread
            /\ pc' = [pc EXCEPT ![t] = "idle"]
            /\ req' = [req EXCEPT ![t] = ""]
            /\ resp' = To(t, Panicked)
            /\ UNCHANGED <<sel, trials, entry>>
       ELSE LET c == CarrierGet(NextIdxRet(cur_idx, Len(carriers)))
            IN  IF IsSome(c)
                THEN /\ sel' = [sel EXCEPT ![t] = c]
                     /\ trials' = [trials EXCEPT ![t] = <<>>]
                     /\ entry' = [entry EXCEPT ![t] = None]
                     /\ pc' = [pc EXCEPT ![t] = "verify"]
                     /\ UNCHANGED <<mutex, mutex_poisoned, req, resp>>
                ELSE /\ resp' = To(t, NoCarriersFound)
                     /\ mutex' = NoThread
                     /\ pc' = [pc EXCEPT ![t] = "idle"]
                     /\ req' = [req EXCEPT ![t] = ""]
                     /\ UNCHANGED <<mutex_poisoned, sel, trials, entry>>
    /\ UNCHANGED <<carriers, repo, keeperVars, num>>

\* what `store_attempt` of the boxed repository may return: the keeper
\* always returns Ok(()); the trait lets another repository return Err
StoreResults(r) == IF r = Keeper THEN {"Ok"} ELSE {"Ok", "Err"}

\* the entries after a store_attempt call that returned `result`
StoredEntries(es, e, result) == IF result = "Ok" THEN store_attempt(es, e) ELSE es

\* handle_request returns Err(e): main answers with the error's text
HandlerErr == [kind |-> "err", error |-> Some("store_attempt failed")]

\* the `?` after store_attempt: handle_request returns early on an Err
QuestionMarkDropped(result) == FALSE
QuestionMark(result) == result = "Err"

\* handle_request, line 116: `self.repo.store_attempt(entry.clone())?`
StoreEntry(t) ==
    /\ pc[t] = "verified"
    /\ mutex = t
    /\ \E result \in StoreResults(repo) :
          /\ entries' = StoredEntries(entries, Unwrap(entry[t]), result)
          /\ IF QuestionMark(result)
             THEN /\ resp' = To(t, HandlerErr)
                  /\ mutex' = NoThread
                  /\ pc' = [pc EXCEPT ![t] = "idle"]
                  /\ req' = [req EXCEPT ![t] = ""]
                  /\ sel' = [sel EXCEPT ![t] = None]
                  /\ trials' = [trials EXCEPT ![t] = <<>>]
                  /\ entry' = [entry EXCEPT ![t] = None]
             ELSE /\ pc' = [pc EXCEPT ![t] = "stored"]
                  /\ UNCHANGED <<mutex, req, sel, trials, entry, resp>>
    /\ UNCHANGED <<balVars, carriers, repo, mutex_poisoned, step_weights, num>>

\* handle_request, lines 117-130; the handler returns, which drops its
\* locals and the guard
Respond(t, ts) ==
    /\ pc[t] = "stored"
    /\ resp' = To(t, ResponseFor(Unwrap(entry[t]), req[t], ts))
    /\ mutex' = NoThread
    /\ pc' = [pc EXCEPT ![t] = "idle"]
    /\ req' = [req EXCEPT ![t] = ""]
    /\ sel' = [sel EXCEPT ![t] = None]
    /\ trials' = [trials EXCEPT ![t] = <<>>]
    /\ entry' = [entry EXCEPT ![t] = None]
    /\ UNCHANGED <<balVars, carriers, repo, mutex_poisoned, keeperVars, num>>

\* GET /rank: `server.lock().unwrap()`
RankLock(t) ==
    /\ pc[t] = "idle"
    /\ LockAvailable
    /\ IF mutex_poisoned
       THEN /\ resp' = To(t, Panicked)
            /\ UNCHANGED <<mutex, pc>>
       ELSE /\ mutex' = t
            /\ pc' = [pc EXCEPT ![t] = "rank"]
            /\ resp' = resp
    /\ UNCHANGED <<balVars, carriers, repo, mutex_poisoned, keeperVars, req, sel, trials, entry, num>>

\* GET /rank: `.get_provider_rank()` under the guard, then the guard dropped
RankReturn(t) ==
    /\ pc[t] = "rank"
    /\ \E order \in IterOrders(CarriersOf(entries)), overflow_checks \in BOOLEAN :
          LET out == RankOutcome(step_weights, entries, order, overflow_checks)
          IN  /\ resp' = To(t, out)
              /\ mutex_poisoned' = (mutex_poisoned \/ out.kind = "panic")
    /\ entries' = IterEntries(entries)
    /\ mutex' = NoThread
    /\ pc' = [pc EXCEPT ![t] = "idle"]
    /\ UNCHANGED <<balVars, carriers, repo, step_weights, req, sel, trials, entry, num>>

Next ==
    \/ \E t \in Threads, number \in Numbers : PostLock(t, number)
    \/ \E t \in Threads : SelectCarrier(t)
    \/ \E t \in Threads, n \in Draws : SendSms(t, n) /\ UNCHANGED num
    \/ \E t \in Threads, n \in Draws : SendVoice(t, n) /\ UNCHANGED num
    \/ \E t \in Threads : VerifyReturn(t)
    \/ \E t \in Threads : StoreEntry(t)
    \/ \E t \in Threads, ts \in Timestamps : Respond(t, ts)
    \/ \E t \in Threads : RankLock(t)
    \/ \E t \in Threads : RankReturn(t)

Spec == Init /\ [][Next]_vars

(***************************************************************************)
(* SpecRepo: the same handlers on a server that boxes a repository whose   *)
(* store_attempt may fail                                                  *)
(***************************************************************************)
RepoInit ==
    /\ InitBalancer /\ InitThreads /\ InitLocks
    /\ carriers \in Pools
    /\ repo = ProductionDB
    /\ entries = <<>>
    /\ step_weights = NewStepWeights(MainWeights)

SpecRepo == RepoInit /\ [][Next]_vars

(***************************************************************************)
(* Properties of the balancer (SpecBalancer)                               *)
(***************************************************************************)
\* every call so far was made with the same carrier_len n >= 1
ConstantPool(n) == n >= 1 /\ \A i \in 1..Len(calls) : calls[i].len = n

\* C2: on a fresh balancer, calls of next_idx(n) with a constant n >= 1
\* return 0, 1, ..., n-1, 0, ... in order; each call returns the counter and
\* leaves it at (counter + 1) mod n; after k*n calls every index was
\* returned exactly k times
C2_RoundRobinCycle ==
    \A n \in 1..MaxPool :
        ConstantPool(n) =>
            /\ \A i \in 1..Len(calls) : calls[i].ret = Some((i - 1) % n)
            /\ cur_idx = Len(calls) % n
            /\ \A k \in 1..Len(calls) :
                  Len(calls) = k * n =>
                      \A j \in 0..(n - 1) :
                          Cardinality({i \in 1..Len(calls) : calls[i].ret = Some(j)}) = k

\* two full rounds over a pool of three
C2_Witness ==
    /\ ConstantPool(3)
    /\ Len(calls) = 6
    /\ calls[6].ret = Some(2)

\* C3: every next_idx(poolSize) call with poolSize >= 1 that returns, returns
\* an index below poolSize, whatever calls came before
C3_IndexBelowPoolSize ==
    \A i \in 1..Len(calls) :
        (calls[i].len >= 1 /\ IsSome(calls[i].ret)) => Unwrap(calls[i].ret) < calls[i].len

(***************************************************************************)
(* Properties of the provider (SpecProvider)                               *)
(***************************************************************************)
\* thread t is in, or has returned from, a verify call on provider p
Verifying(t) == IsSome(sel[t])
Returned(t) == pc[t] = "verified" /\ IsSome(entry[t])

\* C7: a provider with chance_sms = 0 and chance_voice = 0 resolves every
\* verify call to Unreachable
C7_ZeroChanceUnreachable ==
    \A t \in Threads :
        (Returned(t) /\ Unwrap(sel[t]).chance_sms = 0 /\ Unwrap(sel[t]).chance_voice = 0)
            => Unwrap(entry[t]).step = "Unreachable"

\* C8: a provider with chance_sms = 100 resolves every verify call to
\* FirstSMS, whatever its chance_voice and whatever is drawn
C8_FullChanceFirstSMS ==
    \A t \in Threads :
        (Returned(t) /\ Unwrap(sel[t]).chance_sms = 100)
            => Unwrap(entry[t]).step = "FirstSMS"

\* the largest draw, on a provider whose voice calls never succeed
C8_Witness ==
    /\ Returned("h1")
    /\ Unwrap(sel["h1"]).chance_sms = 100
    /\ Unwrap(sel["h1"]).chance_voice = 0
    /\ num = Some(99)

\* the calls verify makes, in order
TrialOrder == <<"sms", "sms", "voice", "voice">>

\* C9: verify runs SMS 1, SMS 2, voice 1, voice 2 in that order, runs no
\* trial after a successful one, names its step after the first trial that
\* succeeded, and yields Unreachable exactly when all four trials failed
C9_FirstSuccessDecides ==
    \A t \in Threads :
        LET tr == trials[t] IN
        /\ Len(tr) <= 4
        /\ \A i \in 1..Len(tr) : tr[i].kind = TrialOrder[i]
        /\ \A i \in 1..(Len(tr) - 1) : ~tr[i].ok
        /\ Returned(t) =>
              LET step == Unwrap(entry[t]).step IN
              /\ Len(tr) >= 1
              /\ tr[Len(tr)].ok =>
                    step = <<"FirstSMS", "SecondSMS", "FirstTextToSpeech",
                             "SecondTextToSpeech">>[Len(tr)]
              /\ step = "Unreachable" <=>
                    (Len(tr) = 4 /\ \A i \in 1..4 : ~tr[i].ok)

\* both SMS trials failed and the first voice call succeeded
C9_Witness ==
    /\ Returned("h1")
    /\ Len(trials["h1"]) = 3
    /\ Unwrap(entry["h1"]).step = "FirstTextToSpeech"

(***************************************************************************)
(* Properties of the keeper (SpecKeeper)                                   *)
(***************************************************************************)
\* the weights of carrier c's entries, in the order they were stored
WeightsOf(c) ==
    LET own == SelectSeq(entries, LAMBDA e : e.carrier = c)
    IN  [i \in 1..Len(own) |-> step_weights[own[i].step]]

\* the mathematical sum of a sequence of weights, as limbs [hi, lo] with
\* lo < 2^16 and hi unbounded
RECURSIVE ExactSum(_)
ExactSum(ws) ==
    IF ws = <<>> THEN [hi |-> 0, lo |-> 0]
    ELSE LET a == ExactSum(Tail(ws))
             w == U32(Head(ws))
             lo == a.lo + w.lo
         IN  [hi |-> a.hi + w.hi + (lo \div Limb), lo |-> lo % Limb]

\* x * 2^e and 2 * s as limbs, and their order
WideShl(x, e) == [hi |-> x \div Pow2(16 - e), lo |-> (x % Pow2(16 - e)) * Pow2(e)]
WideTwice(s) == [hi |-> 2 * s.hi + ((2 * s.lo) \div Limb), lo |-> (2 * s.lo) % Limb]
WideLe(a, b) == a.hi < b.hi \/ (a.hi = b.hi /\ a.lo <= b.lo)

\* the f32 x is the mean sum / count up to f32 precision: it is within half a
\* unit in the last place of the exact quotient, |x * count - sum| <= ulp * count / 2
\* (for fewer than 64 attempts and weights >= 1 the e < -29 case is no mean)
IsMeanF32(x, sum, count) ==
    IF x.m = 0 THEN sum.hi = 0 /\ sum.lo = 0
    ELSE LET low == 2 * x.m * count - count
             high == 2 * x.m * count + count
         IN  IF x.e >= 0
             THEN /\ WideLe(WideShl(low, x.e), WideTwice(sum))
                  /\ WideLe(WideTwice(sum), WideShl(high, x.e))
             ELSE /\ x.e >= -29
                  /\ sum.hi < Pow2(13)
                  /\ LET p == Pow2(1 - x.e)
                         v == sum.hi * Limb + sum.lo
                     IN  (low + p - 1) \div p <= v /\ v <= high \div p

\* C5: get_provider_rank returns exactly one (carrier, score) pair for each
\* carrier with at least one entry and none for any other; each score is
\* the arithmetic mean of the weights of that carrier's entries (as an f32)
C5_RankIsMeanPerCarrier ==
    /\ resp.kind # "panic"
    /\ resp.kind = "rank" =>
          /\ {resp.rank[i].carrier : i \in 1..Len(resp.rank)} = CarriersOf(entries)
          /\ Len(resp.rank) = Cardinality(CarriersOf(entries))
          /\ \A i \in 1..Len(resp.rank) :
                LET ws == WeightsOf(resp.rank[i].carrier)
                IN  Len(ws) >= 1 /\ IsMeanF32(resp.rank[i].score, ExactSum(ws), Len(ws))

\* C6: the sequence get_provider_rank returns is ascending by score: no
\* element's score is greater than the next one's
C6_RankAscending ==
    resp.kind = "rank" =>
        \A i \in 1..(Len(resp.rank) - 1) :
            ~F32Lt(resp.rank[i + 1].score, resp.rank[i].score)

\* a ranking of two carriers with different scores, the carrier stored
\* first ranked last
C6_Witness ==
    /\ resp.kind = "rank"
    /\ Len(resp.rank) = 2
    /\ resp.rank[1].score # resp.rank[2].score
    /\ entries[1].carrier = resp.rank[2].carrier

(***************************************************************************)
(* Properties of the server (Spec)                                         *)
(***************************************************************************)
\* C1: on a server with no carriers handle_request returns the
\* 'no carriers found' response without calling next_idx, without running
\* any provider and without touching the entries
C1_EmptyPoolShortCircuits ==
    carriers = <<>> =>
        /\ calls = <<>>
        /\ entries = <<>>
        /\ \A t \in Threads : ~Verifying(t)
        /\ \/ resp.kind \in {"none", "rank"}
           \/ \E t \in Threads : resp = To(t, NoCarriersFound)

\* threads inside a handler's critical section
Inside == {t \in Threads : pc[t] # "idle"}

\* C4: with several handlers on the shared server and a constant pool of
\* n >= 1 carriers, at most one handler at a time is between taking and
\* returning its index, and the indices handed out are, in call order,
\* 0, 1, ..., n-1, 0, ...: within n consecutive calls none repeats, none is
\* skipped
C4_IndicesSerialized ==
    Len(carriers) >= 1 =>
        LET n == Len(carriers) IN
        /\ Cardinality(Inside) <= 1
        /\ \A i \in 1..Len(calls) : calls[i].ret = Some((i - 1) % n)
        /\ \A i, j \in 1..Len(calls) :
              (i < j /\ j < i + n) => calls[i].ret # calls[j].ret
        /\ cur_idx = Len(calls) % n

\* the counter has wrapped; one handler has been answered and the other
\* one, inside, holds the index handed out last
C4_Witness ==
    /\ Len(carriers) >= 2
    /\ Len(calls) > Len(carriers)
    /\ resp.kind = "response" /\ resp.to = "h1"
    /\ pc["h2"] = "verify"
    /\ sel["h2"] = Some(carriers[Unwrap(calls[Len(calls)].ret) + 1])

\* a response of handle_request is a success or a failure
WellFormed(r) ==
    \/ IsSome(r.token) /\ Len(Unwrap(r.token)) > 0 /\ r.error = None
    \/ r.token = None /\ IsSome(r.error)

\* handle_request returns to thread t in this step
Responds(t) == pc[t] = "stored" /\ pc'[t] = "idle"

\* C10: every response of handle_request carries either a non-empty token
\* and no error, or an error and no token; it carries a token exactly when
\* the entry recorded for the attempt has a step other than Unreachable
C10_TokenIffReachable ==
    /\ [](resp.kind = "response" => WellFormed(resp))
    /\ [][\A t \in Threads :
            Responds(t) =>
                /\ resp'.kind = "response"
                /\ entries # <<>>
                /\ entries[Len(entries)] = Unwrap(entry[t])
                /\ IsSome(resp'.token) <=> entries[Len(entries)].step # "Unreachable"]_vars

\* a token was issued
C10_Witness ==
    /\ resp.kind = "response"
    /\ IsSome(resp.token)
    /\ entries # <<>>

(***************************************************************************)
(* Properties of the server with a failing repository (SpecRepo)           *)
(***************************************************************************)
\* in this step thread t's store_attempt call returns Err: the call is made
\* (the handler leaves "verified") and nothing is appended
StoreFails(t) == pc[t] = "verified" /\ pc'[t] # "verified" /\ entries' = entries

\* C11: when store_attempt returns an error, handle_request returns that
\* error to its caller, whatever step the provider reached: no response
\* with a token, no success; and a response of handle_request is only
\* produced for an attempt whose entry has been stored
C11_StoreErrorPropagates ==
    /\ [][\A t \in Threads :
            StoreFails(t) => (pc'[t] = "idle" /\ resp' = To(t, HandlerErr))]_vars
    /\ [][\A t \in Threads :
            Responds(t) =>
                (entries # <<>> /\ entries[Len(entries)] = Unwrap(entry[t]))]_vars

\* the second attempt's store failed after the first attempt's had succeeded
C11_Witness ==
    /\ resp.kind = "err"
    /\ Len(calls) = 2
    /\ Len(entries) = 1

(***************************************************************************)
(* Properties of the ledger under the handlers (Spec)                      *)
(***************************************************************************)
\* handle_request calls that have taken their index and not returned, and
\* the number of those that have returned (each call takes one index)
InFlight == {t \in Threads : pc[t] \in {"verify", "verified", "stored"}}
Completed == Len(calls) - Cardinality(InFlight)

\* C12: on a non-empty pool the entries are as many as the completed
\* handle_request calls (plus the one stored by a call about to return);
\* every step leaves the entries alone or appends the one entry of a
\* handler at the end, so that no stored entry is changed, moved or removed;
\* and get_provider_rank leaves them alone
C12_LedgerAppendOnly ==
    /\ [](Len(carriers) >= 1 =>
            Len(entries) = Completed + Cardinality({t \in Threads : pc[t] = "stored"}))
    /\ [][\/ entries' = entries
          \/ \E t \in Threads :
                /\ pc[t] = "verified" /\ pc'[t] = "stored"
                /\ entries' = Append(entries, Unwrap(entry[t]))]_vars
    /\ [][\A t \in Threads : pc[t] = "rank" => entries' = entries]_vars

\* three calls completed, three entries, and a ranking query answered last
C12_Witness ==
    /\ Len(carriers) >= 1
    /\ InFlight = {}
    /\ Completed = 3
    /\ Len(entries) = 3
    /\ entries[1] # entries[2]
    /\ resp.kind = "rank"

\* the (carrier, score) pairs of a returned ranking, as a set
RankSet(r) == {r.rank[i] : i \in 1..Len(r.rank)}

\* thread t is in a GET /rank handler during this step
Ranking(t) == pc[t] = "rank" \/ pc'[t] = "rank"

\* C13: a ranking query changes neither the entries, nor the step weights,
\* nor the balancer (its counter and the calls made to it), and runs no
\* provider; its pairs are those of the entries as they stand, the same
\* for every iteration order, so a query that follows another with no
\* attempt between them returns the same set of pairs
C13_RankReadOnly ==
    [][\A t \in Threads :
          Ranking(t) =>
              /\ entries' = entries
              /\ step_weights' = step_weights
              /\ cur_idx' = cur_idx /\ calls' = calls /\ rw_poisoned' = rw_poisoned
              /\ sel' = sel /\ trials' = trials /\ entry' = entry /\ num' = num
              /\ pc'[t] = "idle" =>
                    /\ resp'.kind = "rank"
                    /\ \A order \in IterOrders(CarriersOf(entries)) :
                          RankSet(resp') =
                              RankSet([rank |-> get_provider_rank(step_weights, entries, order)])
                    /\ resp.kind = "rank" => RankSet(resp') = RankSet(resp)]_vars

\* a ranking of two carriers has been returned and the next query is
\* running, with no attempt between them
C13_Witness ==
    /\ resp.kind = "rank"
    /\ Len(resp.rank) = 2
    /\ \E t \in Threads : pc[t] = "rank"
    /\ Len(entries) = Len(calls)

\* the first k entries
Prefix(k) == SubSeq(entries, 1, k)

\* r is the ranking get_provider_rank computes from the entries es
RankingOf(r, es) ==
    \E order \in IterOrders(CarriersOf(es)) :
        r = get_provider_rank(step_weights, es, order)

\* C14: with POST / and GET /rank handlers running concurrently on the
\* shared server no append is lost: once the calls made have all returned
\* there are as many entries as calls; a ranking is computed only while no
\* other handler is inside the server, and every ranking returned is the
\* ranking of a prefix of the entries (a state between two whole appends)
C14_NoLostAppend ==
    Len(carriers) >= 1 =>
        /\ (\A t \in Threads : pc[t] = "idle") => Len(entries) = Len(calls)
        /\ \A t \in Threads :
              pc[t] = "rank" => \A u \in Threads \ {t} : pc[u] = "idle"
        /\ resp.kind = "rank" =>
              \E k \in 0..Len(entries) : RankingOf(resp.rank, Prefix(k))

\* h1 was handed the ranking of the first entry; h2 has since appended a
\* second one, for another carrier
C14_Witness ==
    /\ resp.kind = "rank" /\ resp.to = "h1"
    /\ Len(resp.rank) = 1
    /\ pc["h2"] = "stored"
    /\ Len(entries) = 2
    /\ entries[1].carrier # entries[2].carrier

\* in this step a request of thread t, arriving while t is idle, ends at
\* `server.lock().unwrap()` with a panic: the Mutex was poisoned by the
\* panic of an earlier request
RefusedByPoison(t) ==
    /\ pc[t] = "idle" /\ pc'[t] = "idle"
    /\ resp' # resp
    /\ resp' = To(t, Panicked)

\* C15: whatever happened while other requests were handled, a request is
\* handled and answered normally: none is refused because an earlier
\* request left the shared server unusable
C15_OtherRequestsHandled ==
    [][\A t \in Threads : ~RefusedByPoison(t)]_vars

(***************************************************************************)
(* Properties of the constructors (SpecConstruct)                          *)
(***************************************************************************)
\* C16: VerificationKeeper::new fails exactly when some value is greater
\* than the one after it, the values read in the order FirstSMS, SecondSMS,
\* FirstTextToSpeech, SecondTextToSpeech, Unreachable (equal neighbours are
\* accepted); on success each step has the weight at its position
C16_NewKeeperNonDecreasing ==
    resp.kind = "keeper" =>
        LET v == resp.step_values IN
        /\ resp.ok <=> \A i \in 1..4 : v[i] <= v[i + 1]
        /\ resp.ok =>
              /\ IsSome(resp.step_weights)
              /\ Unwrap(resp.step_weights)["FirstSMS"] = v[1]
              /\ Unwrap(resp.step_weights)["SecondSMS"] = v[2]
              /\ Unwrap(resp.step_weights)["FirstTextToSpeech"] = v[3]
              /\ Unwrap(resp.step_weights)["SecondTextToSpeech"] = v[4]
              /\ Unwrap(resp.step_weights)["Unreachable"] = v[5]
        /\ ~resp.ok => resp.step_weights = None

\* a table with equal neighbours is accepted
C16_Witness ==
    /\ resp.kind = "keeper"
    /\ resp.step_values = <<1, 1, 2, 2, 2>>
    /\ resp.ok

\* C17: constructing the server for the option value "best" (or "b") ends
\* in the `unimplemented!` panic: no server value is produced, in
\* particular none with a round-robin balancer
C17_BestUnimplemented ==
    (resp.kind = "server" /\ resp.arg \in {"b", "best"}) =>
        /\ resp.server = None
        /\ resp.outcome = "panic: not implemented: BestBalancer is not supported yet"

\* the server was asked for with --balancer best: no server value
C17_Witness ==
    /\ resp.kind = "server"
    /\ resp.arg = "best"
    /\ resp.server = None

(***************************************************************************)
(* Properties of the dispatch (Spec, the keeper as repository)             *)
(***************************************************************************)
\* the provider at 0-based position i of the pool, taken cyclically
PoolAt(i) == carriers[(i % Len(carriers)) + 1]

\* C18: with a constant pool of n >= 1 providers and the keeper as
\* repository, the i-th entry (0-based) carries the name of pool[i mod n];
\* the balancer has been called once per attempt handled, whatever the
\* attempts' steps were; and a handler in progress works on the provider the
\* balancer's latest index selects
C18_EntryCarrierIsPoolCyclic ==
    Len(carriers) >= 1 =>
        /\ \A i \in 1..Len(entries) : entries[i].carrier = PoolAt(i - 1).name
        /\ Len(calls) =
              Len(entries) + Cardinality({t \in Threads : pc[t] \in {"verify", "verified"}})
        /\ \A t \in InFlight :
              /\ sel[t] = Some(PoolAt(Len(calls) - 1))
              /\ IsSome(entry[t]) => Unwrap(entry[t]).carrier = PoolAt(Len(calls) - 1).name

\* three attempts on the pool of two: the second one Unreachable, the
\* third one back at the first provider
C18_Witness ==
    /\ Len(carriers) = 2
    /\ Len(entries) = 3
    /\ entries[2].step = "Unreachable"
    /\ entries[3].carrier = carriers[1].name
    /\ entries[2].carrier = carriers[2].name

(***************************************************************************)
(* Properties of the scores (SpecKeeper)                                   *)
(***************************************************************************)
\* the weight of step s as an f32
WeightF32(s) == U32ToF32(U32(step_weights[s]))

\* C19: every score get_provider_rank returns is no less than the weight of
\* FirstSMS and no greater than the weight of Unreachable (compared as f32
\* values), and it equals the weight of Unreachable exactly when every entry
\* of the carrier has a step whose weight is that of Unreachable
C19_ScoreWithinWeights ==
    resp.kind = "rank" =>
        \A i \in 1..Len(resp.rank) :
            LET x == resp.rank[i].score
                ws == WeightsOf(resp.rank[i].carrier)
            IN  /\ ~F32Lt(x, WeightF32("FirstSMS"))
                /\ ~F32Lt(WeightF32("Unreachable"), x)
                /\ x = WeightF32("Unreachable") <=>
                      \A j \in 1..Len(ws) : ws[j] = step_weights["Unreachable"]

\* C20: get_provider_rank always returns, and the u32 sum get_weighted_avg
\* computes for each carrier is the mathematical sum of the weights of the
\* carrier's entries: it never passes 2^32 - 1
C20_SumWithinU32 ==
    /\ resp.kind # "panic"
    /\ resp.kind = "rank" =>
          \A c \in CarriersOf(entries) :
              LET sum == WeightedSum(step_weights, StepsOf(entries, c))
                  exact == ExactSum(WeightsOf(c))
              IN  ~sum.ovf /\ sum.hi = exact.hi /\ sum.lo = exact.lo
====
